---- MODULE Spec2Model ----
(***************************************************************************)
(* Model of the dual-provider image tools of the OpenRouter MCP server:    *)
(* the call-tool handler, generateImage and editImage with their Gemini    *)
(* direct attempt, temp-file handling and OpenRouter fallback              *)
(* (src/src/handlers/tools.ts).                                            *)
(***************************************************************************)
EXTENDS Naturals, Integers, Sequences, FiniteSets, TLC

\* ---------------------------------------------------------------- bounds
MaxTime == 2       \* Date.now() ranges over 0..MaxTime
MaxImages == 2     \* longest images[] argument
MaxAttempts == 2   \* cap on requests to one provider within a call
MaxParts == 2      \* longest parts[] of a Gemini response
MaxRespImages == 1 \* longest message.images[] of an OpenRouter response
MaxSaveImages == 2   \* longest image list handed to saveResponseImages
MaxModels == 2     \* longest models[] argument of compare_models

\* ------------------------------------------------------------ input sets
NoDir == "<none>"
SaveDirs == {NoDir, "out"}

DataUriOk == "data:image/png;base64,AAAA"
DataUriBad == "data:"
RemoteUrl == "http://host/a.jpg"
ImageRefs == {DataUriOk, DataUriBad, RemoteUrl}

ToolNames == {"generate_image", "edit_image"}

\* the tools that talk to the Gemini endpoint only
GeminiToolNames == {"gemini_direct_edit", "gemini_native_generate"}

\* a name the switch of the handler has no case for
UnknownTool == "no_such_tool"

NoPath == "none"
ImagePath == "in.jpg"

\* output_path: the default of the tool's schema or the caller's own
DefaultOutput(name) ==
  IF name = "gemini_direct_edit" THEN "gemini-edited-image.png"
                                 ELSE "gemini-native-image.png"
OutputPaths(name) == {DefaultOutput(name), "custom.png"}

\* prompt of generate_image, instruction of edit_image
Prompts == {"add a sunset", "make it brighter"}

\* what a caller of generate_image or edit_image chooses besides the images:
\* the schema's defaults, or values of its own
DefaultModel == "google/gemini-2.5-flash-image-preview:free"
CallOptions ==
  {[prompt |-> "add a sunset", model |-> DefaultModel,
    max_tokens |-> "1000", temperature |-> "0.7"],
   [prompt |-> "make it brighter",
    model |-> "google/gemini-2.5-flash-image-preview",
    max_tokens |-> "256", temperature |-> "0.2"]}

\* the reference image of another edit_image call
PeerImage == "http://host/b.jpg"

\* an unset environment variable or an omitted optional argument
Absent == "<undefined>"

ArgKey == "key-from-argument"
EnvKey == "key-from-env"
ArgProxy == "http://127.0.0.1:7890"
HttpProxy == "http://proxy-a:3128"
HttpsProxy == "http://proxy-b:3128"

\* a JavaScript value used as a condition: undefined and "" are false
Truthy(v) == v \notin {Absent, ""}

\* a || b
Or(a, b) == IF Truthy(a) THEN a ELSE b

\* api_key || process.env.GEMINI_API_KEY
ResolveGeminiKey(apiKey, envKey) == Or(apiKey, envKey)

EnvProxy_HttpsFirst(pe) == Or(pe.HTTPS_PROXY, pe.HTTP_PROXY)

\* process.env.HTTP_PROXY || process.env.HTTPS_PROXY
EnvProxy(pe) == Or(pe.HTTP_PROXY, pe.HTTPS_PROXY)

\* proxy_url || process.env.HTTP_PROXY || process.env.HTTPS_PROXY
ResolveProxy(proxyUrl, pe) == Or(proxyUrl, EnvProxy(pe))

NoProxyEnv == [HTTP_PROXY |-> Absent, HTTPS_PROXY |-> Absent]

ImageLists == UNION {[1..n -> ImageRefs] : n \in 0..MaxImages}

VARIABLES
  env,          \* process.env: which credentials are configured
  now,          \* Date.now()
  fs,           \* timestamps n such that temp_image_<n>.jpg exists on disk
  dirExists,    \* whether the directory "out" exists
  req,          \* the arguments of the call being handled
  pc,           \* position of the call inside the handler
  tempFiles,    \* editImage's local tempFiles array
  inflight,     \* requests issued and not yet resolved
  trace,        \* what the call has done so far, in order
  directOutcome,\* classification of the direct attempt
  directErr,    \* message of the error caught on the direct path
  reports,      \* success reports built by the call
  result,       \* what the call-tool handler returned
  directReq,    \* parts of the request body sent to the Gemini endpoint
  secReq,       \* content blocks of the request sent to OpenRouter
  secResp,      \* what the OpenRouter endpoint answered
  detail,       \* the variable lines of the OpenRouter report text
  fsWriter,     \* for every temp file name, who wrote the file last
  rmFails,      \* whether rm -f fails in this environment
  peer,         \* temp-file life cycle of a concurrent edit_image call
  outFiles,     \* the output paths the Gemini tools have written
  proxyEnv,     \* process.env.HTTP_PROXY and process.env.HTTPS_PROXY
  arg,          \* the input of a helper function applied on its own
  ret,          \* what that helper function returned
  cmp,          \* the compare_models call being handled
  saved,        \* the generated_image files the calls have left on disk
  directAgent,  \* axiosConfig.httpsAgent of the request to the Gemini endpoint
  secOpts       \* model, max_tokens, temperature and agent of the OpenRouter request

vars == <<env, now, fs, dirExists, req, pc, tempFiles, inflight, trace,
          directOutcome, directErr, reports, result, directReq, secReq,
          secResp, detail, fsWriter, rmFails, peer, outFiles, proxyEnv,
          arg, ret, cmp, directAgent, secOpts, saved>>

\* the variables a step of the handled call leaves alone unless it says so
callCfg == <<directAgent, secOpts>>
callIO == <<directReq, secReq, secResp, detail, callCfg>>
fixed == <<proxyEnv, arg, ret, cmp>>
kept == <<rmFails, peer, outFiles, fixed>>
world == <<kept, saved>>

NoResult == [kind |-> "none", api |-> "none", text |-> <<>>]
NoReq == [name |-> "none", images |-> <<>>, save_directory |-> NoDir,
         prompt |-> "none", api_key |-> FALSE, image_path |-> NoPath,
         output_path |-> NoPath, model |-> "none", max_tokens |-> "none",
         temperature |-> "none"]
NoOpts == [model |-> "none", max_tokens |-> "none", temperature |-> "none",
          agent |-> Absent]
NoParts == <<>>
NoResp == [status |-> "none", hasMessage |-> FALSE, hasUsage |-> FALSE,
           hasImages |-> FALSE, nImages |-> 0, content |-> "none"]
NoDetail == [images |-> 0, response |-> "none", usage |-> FALSE,
            proxy |-> Absent, saved |-> <<>>]

\* the files saveResponseImages has written: not followed, or followed from
\* an empty directory, with the paths that more than one call has written
NotTracked == [tracked |-> FALSE, files |-> {}, clobbered |-> {}]
NoFiles == [tracked |-> TRUE, files |-> {}, clobbered |-> {}]
NoPeer == [pc |-> "idle", files |-> <<>>]
NoArg == [fn |-> "none"]
NoCmp == [pc |-> "idle", models |-> <<>>, outcome |-> <<>>,
          result |-> [kind |-> "none", entries |-> <<>>]]
NoRet == [fn |-> "none"]

Count(s, e) == Cardinality({i \in 1..Len(s) : s[i] = e})

\* the server has started and no call is being handled
Started ==
  /\ env \in [GEMINI_API_KEY : BOOLEAN, OPENROUTER_API_KEY : BOOLEAN]
  /\ now = 0
  /\ fs = {}
  /\ dirExists \in BOOLEAN
  /\ req = NoReq
  /\ pc = "idle"
  /\ tempFiles = <<>>
  /\ inflight = {}
  /\ trace = <<>>
  /\ directOutcome = "none"
  /\ directErr = "none"
  /\ reports = <<>>
  /\ result = NoResult
  /\ directReq = NoParts
  /\ secReq = NoParts
  /\ secResp = NoResp
  /\ detail = NoDetail
  /\ directAgent = Absent
  /\ secOpts = NoOpts
  /\ fsWriter = [n \in 0..MaxTime |-> "none"]
  /\ peer = NoPeer
  /\ outFiles = {}

\* no helper function is applied on its own
NoProbe == arg = NoArg /\ ret = NoRet /\ cmp = NoCmp /\ saved = NotTracked

\* rm works, no proxy is configured
Init == Started /\ rmFails = FALSE /\ proxyEnv = NoProxyEnv /\ NoProbe

\* rm may be unusable for the whole run (no rm on the PATH, read-only cwd)
InitRm == Started /\ rmFails \in BOOLEAN /\ proxyEnv = NoProxyEnv /\ NoProbe

\* ------------------------------------------------------- response shapes
PartKinds == {"text", "inlineEmpty", "inlineData"}
PartLists == UNION {[1..n -> PartKinds] : n \in 0..MaxParts}

\* a 2xx body of the Gemini endpoint, field by field
\* a field is present only inside the field that holds it
DirectBodies ==
  {b \in [isObject : BOOLEAN, hasCandidates : BOOLEAN, hasFirst : BOOLEAN,
          hasContent : BOOLEAN, hasParts : BOOLEAN, parts : PartLists] :
     /\ b.hasCandidates => b.isObject
     /\ b.hasFirst => b.hasCandidates
     /\ b.hasContent => b.hasFirst
     /\ b.hasParts => b.hasContent
     /\ ~b.hasParts => b.parts = <<>>}

NullData == "<null>"
ImageB64 == "iVBORw0KGgo="

\* generateImage/editImage: the loop that looks for part.inlineData.data
FirstInline(parts) ==
  IF \E i \in 1..Len(parts) : parts[i] = "inlineData"
    THEN ImageB64
    ELSE NullData

\* the guarded walk down responseData.candidates[0].content.parts
ExtractImageData(body) ==
  IF body.hasCandidates /\ body.hasFirst /\ body.hasContent /\ body.hasParts
    THEN FirstInline(body.parts)
    ELSE NullData

Contents == {"Here is your image.", ""}

\* a 2xx body of the OpenRouter endpoint: without choices[0].message there
\* is neither content nor images, without message.images no image count
SecondaryBodies ==
  {b \in [status : {"2xx"}, hasMessage : BOOLEAN, hasUsage : BOOLEAN,
          hasImages : BOOLEAN, nImages : 0..MaxRespImages,
          content : Contents] :
     /\ ~b.hasMessage => (~b.hasImages /\ b.content = "")
     /\ ~b.hasImages => b.nImages = 0}

\* headers: OPENROUTER_CONFIG.headers carries "Bearer <OPENROUTER_API_KEY>";
\* the endpoint answers 2xx only when a key was configured
SecondaryAuthorized(e) == e.OPENROUTER_API_KEY

\* message.images || []
ResponseImages(body) == IF body.hasImages THEN body.nImages ELSE 0

\* the variable lines of the OpenRouter report: **Response:** ${result} and
\* **Generated Images:** ${responseImages.length}, then the usage lines
ReportDetail(body) ==
  [images |-> ResponseImages(body), response |-> body.content,
   usage |-> body.hasUsage, proxy |-> Absent, saved |-> <<>>]

\* ----------------------------------------------------- saving the images
DataUriNoPayload == "data:image/png"
ResponseUrls == {DataUriOk, DataUriNoPayload, RemoteUrl, Absent}

\* img.image_url?.url || ""
ImageUrl(img) == Or(img, "")

\* imageUrl.startsWith('data:image/')
StartsWithDataImage(url) == url \in {DataUriOk, DataUriNoPayload}

\* base64Data.match(/^data:image\/([^;]+);base64,(.+)$/): matches[1],
\* or no match
MatchImageType(url) == IF url = DataUriOk THEN "png" ELSE Absent

\* if (!saveDirectory ...): undefined and "" are both falsy
DirGiven(dir) == dir \notin {NoDir, ""}

\* savedPath: undefined
Unsaved == [dir |-> NoDir, name |-> "none", key |-> 0, ext |-> "none"]

\* join(directory, `generated_image_${index + 1}` + `.${imageType}`)
SavedPath(dir, index, type) ==
  [dir |-> dir, name |-> "generated_image", key |-> index, ext |-> type]

\* saveBase64Image inside the try of saveResponseImages: the path written,
\* or nothing when it threw (no match, or mkdirSync/writeFileSync failed)
SaveBase64Image(url, dir, index, writeOk) ==
  IF MatchImageType(url) = Absent \/ ~writeOk
    THEN Unsaved
    ELSE SavedPath(dir, index, MatchImageType(url))

SaveResponseImages_Compact(images, saveDirectory, writeOk) ==
  SelectSeq([i \in 1..Len(images) |->
               [url |-> ImageUrl(images[i]),
                savedPath |->
                  IF DirGiven(saveDirectory)
                       /\ StartsWithDataImage(ImageUrl(images[i]))
                    THEN SaveBase64Image(ImageUrl(images[i]), saveDirectory,
                                         i, writeOk[i])
                    ELSE Unsaved]],
            LAMBDA e : ~DirGiven(saveDirectory) \/ e.savedPath # Unsaved)

\* saveResponseImages(images, saveDirectory): one entry per image
SaveResponseImages(images, saveDirectory, writeOk) ==
  IF ~DirGiven(saveDirectory) \/ Len(images) = 0
    THEN [i \in 1..Len(images) |->
            [url |-> ImageUrl(images[i]), savedPath |-> Unsaved]]
    ELSE [i \in 1..Len(images) |->
            [url |-> ImageUrl(images[i]),
             savedPath |->
               IF StartsWithDataImage(ImageUrl(images[i]))
                 THEN SaveBase64Image(ImageUrl(images[i]), saveDirectory,
                                      i, writeOk[i])
                 ELSE Unsaved]]

\* the paths a list of entries says were written
PathsOf(entries) ==
  {entries[i].savedPath : i \in 1..Len(entries)} \ {Unsaved}

\* the files on disk after one call has written paths
Persist(disk, paths) ==
  IF ~disk.tracked
    THEN disk
    ELSE [tracked |-> TRUE, files |-> disk.files \cup paths,
          clobbered |-> disk.clobbered \cup (disk.files \cap paths)]

\* the direct report: if (proxyUrl) responseText += **Proxy:** ${proxyUrl}
DirectDetail(proxyUrl) ==
  [NoDetail EXCEPT !.proxy = IF Truthy(proxyUrl) THEN proxyUrl ELSE Absent]

DirectAgent_Never(proxyUrl) == Absent

\* if (proxyUrl) axiosConfig.httpsAgent = new HttpsProxyAgent(proxyUrl)
DirectAgent(proxyUrl) == IF Truthy(proxyUrl) THEN proxyUrl ELSE Absent

SecondaryOptions_Fixed(r) ==
  [model |-> DefaultModel, max_tokens |-> "1000", temperature |-> "0.7",
   agent |-> Absent]

\* the body and the config of the OpenRouter request: model, max_tokens and
\* temperature of the call, and { headers } with no agent
SecondaryOptions(r) ==
  [model |-> r.model, max_tokens |-> r.max_tokens,
   temperature |-> r.temperature, agent |-> Absent]

\* ------------------------------------------------------- request bodies
TextPart(text) == [type |-> "text", value |-> text, enc |-> "plain"]

\* generateImage: contents[0].parts of the Gemini request
GenDirectParts(r) == <<TextPart(r.prompt)>>

\* editImage: parts = [{ text: instruction }, { inline_data: imageBase64 }]
EditDirectParts(r, encoded) ==
  <<TextPart(r.prompt),
    [type |-> "inline_data", value |-> encoded, enc |-> "base64"]>>

SecondaryContent_FirstOnly(r) ==
  <<TextPart(r.prompt)>> \o
    [i \in 1..(IF Len(r.images) > 0 THEN 1 ELSE 0) |->
       [type |-> "image_url", value |-> r.images[i], enc |-> "plain"]]

\* messages[0].content of the OpenRouter request: the text block, then
\* images.map(imageUrl => ({ type: "image_url", image_url: { url } }))
SecondaryContent(r) ==
  <<TextPart(r.prompt)>> \o
    [i \in 1..Len(r.images) |->
       [type |-> "image_url", value |-> r.images[i], enc |-> "plain"]]

\* ---------------------------------------------------------- error texts
GeminiHttpError == "Request failed with status code 500"
GeminiTypeError == "Cannot read properties of null (reading 'candidates')"
OpenRouterHttpError == "Request failed with status code 429"
OpenRouterTypeError == "Cannot read properties of undefined (reading '0')"
WriteError == "ENOENT: no such file or directory"
DownloadError == "Failed to download image"
NotFoundError == "Downloaded image file not found"
EncodeError == "Command failed: base64"
BothFailedText == "Both Gemini direct API and OpenRouter failed."

\* the text thrown in the catch around the OpenRouter request
BothFailedMessage(secondaryReason) ==
  <<BothFailedText, "OpenRouter error:", secondaryReason>>

ErrorResult_Propagate(name, message) == NoResult

\* the call-tool handler's catch: Error executing <name>: <message>
ErrorResult(name, message) ==
  [kind |-> "error", api |-> "none",
   text |-> <<"Error executing", name>> \o message]

DirectReport == [kind |-> "report", api |-> "Gemini Direct", text |-> <<>>]
SecondaryReport ==
  [kind |-> "report", api |-> "OpenRouter (fallback)", text |-> <<>>]

\* ------------------------------------------------------------ eligibility
GenDirectEligible_Always(e) == TRUE

\* generateImage: if (geminiApiKey)
GenDirectEligible(e) == e.GEMINI_API_KEY

EditDirectEligible_KeyOnly(e, r) == e.GEMINI_API_KEY

\* editImage: if (geminiApiKey && images.length > 0)
EditDirectEligible(e, r) == e.GEMINI_API_KEY /\ Len(r.images) > 0

\* ------------------------------------------------------ control transfer
AfterDirectPost_NoAwait == "secondary"

\* await axios.post(gemini): the call is suspended until the response
AfterDirectPost == "awaitDirect"

AfterDirectSuccess_NoReturn == "secondary"

\* return { content: ... } inside the direct branch ends the call
AfterDirectSuccess == "done"

AfterDirectFailure_Abort == "failed"

\* leaving the direct try block without a return reaches Step 2
AfterDirectFailure == "secondary"

AfterSecondaryError_Retry(tr) ==
  IF Count(tr, "secondaryReq") < MaxAttempts THEN "secondary" ELSE "failed"

AfterSecondaryError_Swallow(tr) == "done"

\* the catch around the OpenRouter request rethrows: the call fails
AfterSecondaryError(tr) == "failed"

\* ------------------------------------------------------------ temp files
Range(s) == {s[i] : i \in 1..Len(s)}

\* cleanupTempFiles: rm -f of every path
CleanupTempFiles(files, paths) == files \ Range(paths)

ReleaseEvents(paths) == [i \in 1..Len(paths) |-> "release"]

\* execSync(`rm -f "${path}"`) either removes the file or throws
RmEffect(files, paths, fails) ==
  IF fails THEN files ELSE CleanupTempFiles(files, paths)

CleanupEvents(paths, fails) ==
  IF fails THEN [i \in 1..Len(paths) |-> "releaseFailed"]
           ELSE ReleaseEvents(paths)

\* a removed file has no writer any more
ClearWriter(w, paths, fails) ==
  IF fails THEN w
           ELSE [n \in DOMAIN w |-> IF n \in Range(paths) THEN "none" ELSE w[n]]

CleanupOutcome_NoCatch(failed, next) == IF failed THEN "failed" ELSE next

\* cleanupTempFiles: try { execSync(rm) } catch { } - control goes on to
\* whatever follows the cleanup, whether rm failed or not
CleanupOutcome(failed, next) == next

\* the bytes readFileSync finds under a temp name: those of the last writer
FileContent(w, name, r) == IF w[name] = "peer" THEN PeerImage ELSE r.images[1]

\* imageUrl.startsWith('data:')
IsDataUri(ref) == ref \in {DataUriOk, DataUriBad}

\* imageUrl.split(',')[1] is a string Buffer.from accepts
HasPayload(ref) == ref = DataUriOk

\* the clock advances between any two steps
Tick ==
  /\ now < MaxTime
  /\ now' = now + 1
  /\ UNCHANGED <<env, fs, dirExists, req, pc, tempFiles, inflight, trace,
                 directOutcome, directErr, reports, result>>
  /\ UNCHANGED <<callIO, fsWriter, world>>

\* the call-tool handler receives a request and dispatches on its name
CallTool ==
  /\ pc = "idle"
  /\ \E name \in ToolNames, imgs \in ImageLists, dir \in SaveDirs,
        opt \in CallOptions :
       /\ (name = "generate_image") => (imgs = <<>>)
       /\ req' = [name |-> name, images |-> imgs, save_directory |-> dir,
                  prompt |-> opt.prompt, api_key |-> FALSE,
                  image_path |-> NoPath, output_path |-> NoPath,
                  model |-> opt.model, max_tokens |-> opt.max_tokens,
                  temperature |-> opt.temperature]
  /\ pc' = "start"
  /\ tempFiles' = <<>>
  /\ inflight' = {}
  /\ trace' = <<>>
  /\ directOutcome' = "none"
  /\ directErr' = "none"
  /\ reports' = <<>>
  /\ result' = NoResult
  /\ directReq' = NoParts
  /\ secReq' = NoParts
  /\ secResp' = NoResp
  /\ detail' = NoDetail
  /\ directAgent' = Absent
  /\ secOpts' = NoOpts
  /\ UNCHANGED <<env, now, fs, dirExists, fsWriter, world>>

\* the handler's promise settles: the result goes out to the client and
\* the locals of the call are gone
HandlerReturns ==
  /\ pc \in {"done", "failed"}
  /\ pc' = "idle"
  /\ req' = NoReq
  /\ tempFiles' = <<>>
  /\ inflight' = {}
  /\ trace' = <<>>
  /\ directOutcome' = "none"
  /\ directErr' = "none"
  /\ reports' = <<>>
  /\ result' = NoResult
  /\ directReq' = NoParts
  /\ secReq' = NoParts
  /\ secResp' = NoResp
  /\ detail' = NoDetail
  /\ directAgent' = Absent
  /\ secOpts' = NoOpts
  /\ UNCHANGED <<env, now, fs, dirExists, fsWriter, world>>

\* ---------------------------------------------------------- generateImage
\* generateImage up to its first await: the eligibility test and, when the
\* key is present, the request to the Gemini endpoint
GenStart ==
  /\ pc = "start"
  /\ req.name = "generate_image"
  /\ IF GenDirectEligible(env)
       THEN /\ Count(trace, "directReq") < MaxAttempts
            /\ trace' = trace \o <<"tryDirect", "directReq">>
            /\ inflight' = inflight \cup {"direct"}
            /\ directReq' = GenDirectParts(req)
            /\ directAgent' = DirectAgent(EnvProxy(proxyEnv))
            /\ pc' = AfterDirectPost
       ELSE /\ trace' = Append(trace, "skipDirect")
            /\ pc' = AfterDirectFailure
            /\ UNCHANGED <<inflight, directReq, directAgent>>
  /\ UNCHANGED <<env, now, fs, dirExists, req, tempFiles, directOutcome,
                 directErr, reports, result>>
  /\ UNCHANGED <<secReq, secResp, detail, secOpts, fsWriter, world>>

\* writeFileSync(outputPath) of generateImage: no directory is created
GenWriteOk(dir, exists) == dir = NoDir \/ exists

\* the Gemini request of generateImage throws (non-2xx or transport error)
GenDirectError ==
  /\ pc = "awaitDirect"
  /\ req.name = "generate_image"
  /\ "direct" \in inflight
  /\ inflight' = inflight \ {"direct"}
  /\ directOutcome' = "error"
  /\ directErr' = GeminiHttpError
  /\ trace' = Append(trace, "directError")
  /\ pc' = AfterDirectFailure
  /\ UNCHANGED <<env, now, fs, dirExists, req, tempFiles, reports, result>>
  /\ UNCHANGED <<callIO, fsWriter, world>>

\* the Gemini request of generateImage resolves with a 2xx response
GenDirectResponds ==
  /\ pc = "awaitDirect"
  /\ req.name = "generate_image"
  /\ "direct" \in inflight
  /\ inflight' = inflight \ {"direct"}
  /\ \E body \in DirectBodies :
       IF ~body.isObject
         THEN \* responseData.candidates throws, caught by the direct catch
              /\ directOutcome' = "error"
              /\ directErr' = GeminiTypeError
              /\ trace' = Append(trace, "directError")
              /\ pc' = AfterDirectFailure
              /\ UNCHANGED <<reports, result>>
         ELSE IF ExtractImageData(body) = NullData
           THEN \* if (imageData) is false: the try block ends, no catch
                /\ directOutcome' = "empty"
                /\ trace' = Append(trace, "directEmpty")
                /\ pc' = AfterDirectFailure
                /\ UNCHANGED <<directErr, reports, result>>
           ELSE /\ directOutcome' = "success"
                /\ IF GenWriteOk(req.save_directory, dirExists)
                     THEN /\ trace' = trace \o <<"directImage", "report">>
                          /\ reports' = Append(reports, DirectReport)
                          /\ result' = DirectReport
                          /\ pc' = AfterDirectSuccess
                          /\ UNCHANGED directErr
                     ELSE \* writeFileSync throws inside the try block
                          /\ trace' = trace \o <<"directImage", "directError">>
                          /\ directErr' = WriteError
                          /\ pc' = AfterDirectFailure
                          /\ UNCHANGED <<reports, result>>
  /\ UNCHANGED <<env, now, fs, dirExists, req, tempFiles>>
  /\ detail' = IF result' = DirectReport
                 THEN DirectDetail(EnvProxy(proxyEnv)) ELSE detail
  /\ UNCHANGED <<directReq, secReq, secResp, callCfg, fsWriter, world>>

\* -------------------------------------------------------------- editImage
\* the catch of editImage's direct try block: log, cleanup, tempFiles = []
EditCatch(reason, tr) ==
  /\ directErr' = reason
  /\ fs' = RmEffect(fs, tempFiles, rmFails)
  /\ fsWriter' = ClearWriter(fsWriter, tempFiles, rmFails)
  /\ trace' = (tr \o <<"directError">>) \o CleanupEvents(tempFiles, rmFails)
  /\ tempFiles' = <<>>
  /\ pc' = CleanupOutcome(rmFails /\ tempFiles # <<>>, AfterDirectFailure)

\* downloadImageToTemp after the bytes are at hand: writeFileSync(tempPath)
\* and, back in editImage, tempFiles.push(imagePath)
EditMaterialize(tr) ==
  \E writeOk \in BOOLEAN :
    IF writeOk
      THEN /\ fs' = fs \cup {now}
           /\ fsWriter' = [fsWriter EXCEPT ![now] = "call"]
           /\ tempFiles' = Append(tempFiles, now)
           /\ trace' = Append(tr, "createTemp")
           /\ pc' = "encode"
           /\ UNCHANGED <<directOutcome, directErr>>
      ELSE /\ directOutcome' = "error"
           /\ EditCatch(DownloadError, tr)

\* editImage up to its first await: the eligibility test and, when it
\* passes, downloadImageToTemp(images[0]) up to axios.get or to its return
EditStart ==
  /\ pc = "start"
  /\ req.name = "edit_image"
  /\ IF ~EditDirectEligible(env, req)
       THEN /\ trace' = Append(trace, "skipDirect")
            /\ pc' = AfterDirectFailure
            /\ UNCHANGED <<fs, fsWriter, tempFiles, inflight, directOutcome,
                           directErr>>
       ELSE IF Len(req.images) = 0 \/ (IsDataUri(req.images[1])
                                        /\ ~HasPayload(req.images[1]))
         THEN \* imageUrl.startsWith or Buffer.from throws
              /\ directOutcome' = "error"
              /\ EditCatch(DownloadError, Append(trace, "tryDirect"))
              /\ UNCHANGED inflight
         ELSE IF IsDataUri(req.images[1])
           THEN /\ EditMaterialize(Append(trace, "tryDirect"))
                /\ UNCHANGED inflight
           ELSE /\ trace' = trace \o <<"tryDirect", "downloadReq">>
                /\ inflight' = inflight \cup {"download"}
                /\ pc' = "awaitDownload"
                /\ UNCHANGED <<fs, fsWriter, tempFiles, directOutcome,
                               directErr>>
  /\ UNCHANGED <<env, now, dirExists, req, reports, result>>
  /\ UNCHANGED <<callIO, world>>

\* axios.get(imageUrl) settles
EditDownloadResponds ==
  /\ pc = "awaitDownload"
  /\ "download" \in inflight
  /\ inflight' = inflight \ {"download"}
  /\ \E fetched \in BOOLEAN :
       IF fetched
         THEN EditMaterialize(trace)
         ELSE /\ directOutcome' = "error"
              /\ EditCatch(DownloadError, trace)
  /\ UNCHANGED <<env, now, dirExists, req, reports, result>>
  /\ UNCHANGED <<callIO, world>>

\* readFileSync(imagePath), the base64 command, and the Gemini request
EditEncodeAndPost ==
  /\ pc = "encode"
  /\ \E encodeOk \in BOOLEAN :
       IF tempFiles[1] \notin fs
         THEN /\ directOutcome' = "error"
              /\ EditCatch(NotFoundError, trace)
              /\ UNCHANGED <<inflight, directReq, directAgent>>
         ELSE IF ~encodeOk
           THEN /\ directOutcome' = "error"
                /\ EditCatch(EncodeError, trace)
                /\ UNCHANGED <<inflight, directReq, directAgent>>
           ELSE /\ Count(trace, "directReq") < MaxAttempts
                /\ trace' = Append(trace, "directReq")
                /\ inflight' = inflight \cup {"direct"}
                /\ directReq' = EditDirectParts(req,
                                   FileContent(fsWriter, tempFiles[1], req))
                /\ directAgent' = DirectAgent(EnvProxy(proxyEnv))
                /\ pc' = AfterDirectPost
                /\ UNCHANGED <<fs, fsWriter, tempFiles, directOutcome,
                               directErr>>
  /\ UNCHANGED <<env, now, dirExists, req, reports, result>>
  /\ UNCHANGED <<secReq, secResp, detail, secOpts, world>>

\* the Gemini request of editImage throws (non-2xx or transport error)
EditDirectError ==
  /\ pc = "awaitDirect"
  /\ req.name = "edit_image"
  /\ "direct" \in inflight
  /\ inflight' = inflight \ {"direct"}
  /\ directOutcome' = "error"
  /\ EditCatch(GeminiHttpError, trace)
  /\ UNCHANGED <<env, now, dirExists, req, reports, result>>
  /\ UNCHANGED <<callIO, world>>

\* mkdirSync(save_directory, { recursive: true }) with its error swallowed
EditMkdir(dir, exists, mkdirOk) ==
  IF dir = NoDir THEN exists ELSE exists \/ mkdirOk

\* the Gemini request of editImage resolves with a 2xx response
EditDirectResponds ==
  /\ pc = "awaitDirect"
  /\ req.name = "edit_image"
  /\ "direct" \in inflight
  /\ inflight' = inflight \ {"direct"}
  /\ \E body \in DirectBodies, mkdirOk \in BOOLEAN :
       IF ~body.isObject
         THEN /\ directOutcome' = "error"
              /\ EditCatch(GeminiTypeError, trace)
              /\ UNCHANGED <<dirExists, reports, result>>
         ELSE IF ExtractImageData(body) = NullData
           THEN \* if (imageData) is false: the try block ends, no catch
                /\ directOutcome' = "empty"
                /\ trace' = Append(trace, "directEmpty")
                /\ pc' = AfterDirectFailure
                /\ UNCHANGED <<fs, fsWriter, dirExists, tempFiles, directErr,
                               reports, result>>
           ELSE /\ directOutcome' = "success"
                /\ dirExists' = EditMkdir(req.save_directory, dirExists, mkdirOk)
                /\ IF req.save_directory = NoDir \/ dirExists'
                     THEN /\ fs' = RmEffect(fs, tempFiles, rmFails)
                          /\ fsWriter' = ClearWriter(fsWriter, tempFiles, rmFails)
                          /\ trace' = ((trace \o <<"directImage">>)
                                         \o CleanupEvents(tempFiles, rmFails))
                                       \o <<"report">>
                          /\ reports' = Append(reports, DirectReport)
                          /\ result' = DirectReport
                          /\ pc' = CleanupOutcome(rmFails /\ tempFiles # <<>>,
                                                  AfterDirectSuccess)
                          /\ UNCHANGED <<tempFiles, directErr>>
                     ELSE \* writeFileSync throws inside the try block
                          /\ EditCatch(WriteError, Append(trace, "directImage"))
                          /\ UNCHANGED <<reports, result>>
  /\ UNCHANGED <<env, now, req>>
  /\ detail' = IF result' = DirectReport
                 THEN DirectDetail(EnvProxy(proxyEnv)) ELSE detail
  /\ UNCHANGED <<directReq, secReq, secResp, callCfg, world>>

\* ------------------------------------------------------------- OpenRouter
\* Step 2 of generateImage and editImage up to the await of axios.post
SecondaryPost ==
  /\ pc = "secondary"
  /\ Count(trace, "secondaryReq") < MaxAttempts
  /\ trace' = Append(trace, "secondaryReq")
  /\ inflight' = inflight \cup {"secondary"}
  /\ pc' = "awaitSecondary"
  /\ secReq' = SecondaryContent(req)
  /\ secOpts' = SecondaryOptions(req)
  /\ UNCHANGED <<env, now, fs, dirExists, req, tempFiles, directOutcome,
                 directErr, reports, result>>
  /\ UNCHANGED <<directReq, directAgent, secResp, detail, fsWriter, world>>

\* the throw of the OpenRouter catch, turned into text by the handler
SecondaryFails(reason) ==
  /\ trace' = Append(trace, "secondaryError")
  /\ pc' = AfterSecondaryError(trace)
  /\ result' = IF AfterSecondaryError(trace) = "failed"
                 THEN ErrorResult(req.name, BothFailedMessage(reason))
                 ELSE result
  /\ UNCHANGED reports

\* the OpenRouter request throws (non-2xx or transport error)
SecondaryError ==
  /\ pc = "awaitSecondary"
  /\ "secondary" \in inflight
  /\ inflight' = inflight \ {"secondary"}
  /\ SecondaryFails(OpenRouterHttpError)
  /\ secResp' = [NoResp EXCEPT !.status = "error"]
  /\ UNCHANGED <<env, now, fs, dirExists, req, tempFiles, directOutcome,
                 directErr>>
  /\ UNCHANGED <<directReq, secReq, detail, callCfg, fsWriter, world>>

\* the OpenRouter request resolves with a 2xx response
SecondaryResponds ==
  /\ pc = "awaitSecondary"
  /\ "secondary" \in inflight
  /\ SecondaryAuthorized(env)
  /\ inflight' = inflight \ {"secondary"}
  /\ \E body \in SecondaryBodies, writeOk \in BOOLEAN :
       LET images == [i \in 1..ResponseImages(body) |-> DataUriOk]
           entries == SaveResponseImages(images, req.save_directory,
                                         [i \in 1..Len(images) |-> writeOk])
       IN
       /\ secResp' = body
       /\ IF body.hasMessage
            THEN \* saveResponseImages runs before the usage lines
                 /\ saved' = Persist(saved, PathsOf(entries))
                 /\ dirExists' = (dirExists \/ PathsOf(entries) # {})
            ELSE UNCHANGED <<saved, dirExists>>
       /\ IF ~body.hasMessage \/ ~body.hasUsage
         THEN \* choices[0].message or usage.prompt_tokens throws
              /\ SecondaryFails(OpenRouterTypeError)
              /\ UNCHANGED detail
         ELSE /\ detail' = [ReportDetail(body) EXCEPT !.saved = entries]
              /\ trace' = trace \o
                   <<IF ResponseImages(body) > 0 THEN "secondaryImages"
                                                 ELSE "secondaryEmpty",
                     "report">>
              /\ reports' = Append(reports, SecondaryReport)
              /\ result' = SecondaryReport
              /\ pc' = "done"
  /\ UNCHANGED <<env, now, fs, req, tempFiles, directOutcome, directErr>>
  /\ UNCHANGED <<directReq, secReq, callCfg, fsWriter, kept>>

Next ==
  \/ Tick
  \/ CallTool
  \/ HandlerReturns
  \/ GenStart
  \/ GenDirectError
  \/ GenDirectResponds
  \/ EditStart
  \/ EditDownloadResponds
  \/ EditEncodeAndPost
  \/ EditDirectError
  \/ EditDirectResponds
  \/ SecondaryPost
  \/ SecondaryError
  \/ SecondaryResponds

Spec == Init /\ [][Next]_vars

SpecRm == InitRm /\ [][Next]_vars

\* the proxy variables of the environment: none usable, HTTPS_PROXY alone,
\* or both
ProxyEnvs ==
  {[HTTP_PROXY |-> "", HTTPS_PROXY |-> Absent],
   [HTTP_PROXY |-> Absent, HTTPS_PROXY |-> HttpsProxy],
   [HTTP_PROXY |-> HttpProxy, HTTPS_PROXY |-> HttpsProxy]}

InitProxy == Started /\ rmFails = FALSE /\ proxyEnv \in ProxyEnvs /\ NoProbe

SpecProxy == InitProxy /\ [][Next]_vars

\* a step of the call being handled: the part of the handler that runs
\* between two awaits, or an awaited request settling
CallStep ==
  \/ GenStart
  \/ GenDirectError
  \/ GenDirectResponds
  \/ EditStart
  \/ EditDownloadResponds
  \/ EditEncodeAndPost
  \/ EditDirectError
  \/ EditDirectResponds
  \/ SecondaryPost
  \/ SecondaryError
  \/ SecondaryResponds

\* the event loop runs every continuation that is ready, and every request
\* sent upstream is answered or fails
SpecLive == Init /\ [][Next]_vars /\ WF_vars(CallStep)

\* ------------------------------------------- a second edit_image call
\* downloadImageToTemp of a call handled at the same time: the name is
\* temp_image_${Date.now()}.jpg and writeFileSync replaces what is there
PeerMaterialize ==
  /\ peer.pc = "idle"
  /\ fs' = fs \cup {now}
  /\ fsWriter' = [fsWriter EXCEPT ![now] = "peer"]
  /\ peer' = [pc |-> "holding", files |-> <<now>>]
  /\ UNCHANGED <<env, now, dirExists, req, pc, tempFiles, inflight, trace,
                 directOutcome, directErr, reports, result, callIO, rmFails,
                 outFiles, fixed, saved>>

\* cleanupTempFiles(tempFiles) of that call, on its success or in its catch
PeerCleanup ==
  /\ peer.pc = "holding"
  /\ fs' = RmEffect(fs, peer.files, rmFails)
  /\ fsWriter' = ClearWriter(fsWriter, peer.files, rmFails)
  /\ peer' = NoPeer
  /\ UNCHANGED <<env, now, dirExists, req, pc, tempFiles, inflight, trace,
                 directOutcome, directErr, reports, result, callIO, rmFails,
                 outFiles, fixed, saved>>

NextConc ==
  \/ Next
  \/ PeerMaterialize
  \/ PeerCleanup

SpecConc == Init /\ [][NextConc]_vars

\* ------------------------------------- gemini_direct_edit, gemini_native_generate
KeyMissingError == "Gemini API key not provided."
ImageNotFoundError == "Image file not found: in.jpg"
NoImageDataError == "No image data found in Gemini response"
UnknownToolText == "Unknown tool:"
ZodErrorText == "[{\"code\":\"invalid_type\",\"message\":\"Required\"}]"

\* the rethrow of the tools' outer catch
GeminiWrap(name) ==
  IF name = "gemini_direct_edit" THEN "Failed to edit image with Gemini:"
                                 ELSE "Failed to generate image with Gemini:"

GeminiToolReport == [kind |-> "report", api |-> "Gemini API", text |-> <<>>]

GeminiKeyPresent_Always(e, r) == TRUE

\* api_key || process.env.GEMINI_API_KEY
GeminiKeyPresent(e, r) == r.api_key \/ e.GEMINI_API_KEY

\* requestBody.contents[0].parts of the two tools
GeminiToolParts(r) ==
  IF r.name = "gemini_direct_edit"
    THEN EditDirectParts(r, r.image_path)
    ELSE GenDirectParts(r)

\* JSON.stringify(response.data), as the tokens of its output: no indent
\* argument is given, so nothing separates a key, its colon and its value
KeyData == "\"data\""
Colon == ":"
Space == " "
QuotedImage == "\"iVBORw0KGgo=\""
QuotedText == "\"Here you go\""
QuotedMime == "\"image/png\""
QuotedValues == {QuotedImage, QuotedText, QuotedMime}

Unquote(tok) ==
  CASE tok = QuotedImage -> ImageB64
    [] tok = QuotedText -> "Here you go"
    [] OTHER -> "image/png"

PartTokens(kind) ==
  CASE kind = "text" -> <<"{", "\"text\"", Colon, QuotedText, "}">>
    [] kind = "inlineEmpty" ->
         <<"{", "\"inlineData\"", Colon, "{", "\"mimeType\"", Colon,
           QuotedMime, "}", "}">>
    [] OTHER ->
         <<"{", "\"inlineData\"", Colon, "{", "\"mimeType\"", Colon,
           QuotedMime, ",", KeyData, Colon, QuotedImage, "}", "}">>

RECURSIVE JoinParts(_)
JoinParts(parts) ==
  IF parts = <<>> THEN <<>>
  ELSE IF Len(parts) = 1 THEN PartTokens(parts[1])
  ELSE (PartTokens(parts[1]) \o <<",">>) \o JoinParts(Tail(parts))

Stringify(body) ==
  IF ~body.isObject THEN <<"null">>
  ELSE IF ~body.hasCandidates THEN <<"{", "}">>
  ELSE IF ~body.hasFirst THEN <<"{", "\"candidates\"", Colon, "[", "]", "}">>
  ELSE IF ~body.hasContent
    THEN <<"{", "\"candidates\"", Colon, "[", "{", "}", "]", "}">>
  ELSE IF ~body.hasParts
    THEN <<"{", "\"candidates\"", Colon, "[", "{", "\"content\"", Colon,
           "{", "}", "}", "]", "}">>
  ELSE (<<"{", "\"candidates\"", Colon, "[", "{", "\"content\"", Colon,
          "{", "\"parts\"", Colon, "[">> \o JoinParts(body.parts))
         \o <<"]", "}", "}", "]", "}">>

\* responseText.match(/"data": "([^"]*)"/): the key, a colon, one space and
\* a quoted value; the result is the capture group of the first match
MatchData(tokens) ==
  LET hits == {i \in 1..(Len(tokens) - 3) :
                 /\ tokens[i] = KeyData
                 /\ tokens[i + 1] = Colon
                 /\ tokens[i + 2] = Space
                 /\ tokens[i + 3] \in QuotedValues}
  IN IF hits = {}
       THEN NullData
       ELSE Unquote(tokens[(CHOOSE i \in hits : \A j \in hits : i <= j) + 3])

AfterGeminiToolError_Fallback == "secondary"

\* the tools have no Step 2: their catch rethrows and the call fails
AfterGeminiToolError == "failed"

\* the handler dispatches a call of one of the two tools
CallGeminiTool ==
  /\ pc = "idle"
  /\ \E name \in GeminiToolNames, text \in Prompts, key \in BOOLEAN :
       \E out \in OutputPaths(name) :
         req' = [name |-> name, images |-> <<>>, save_directory |-> NoDir,
                 prompt |-> text, api_key |-> key,
                 image_path |-> IF name = "gemini_direct_edit"
                                  THEN ImagePath ELSE NoPath,
                 output_path |-> out, model |-> "none",
                 max_tokens |-> "none", temperature |-> "none"]
  /\ pc' = "start"
  /\ tempFiles' = <<>>
  /\ inflight' = {}
  /\ trace' = <<>>
  /\ directOutcome' = "none"
  /\ directErr' = "none"
  /\ reports' = <<>>
  /\ result' = NoResult
  /\ directReq' = NoParts
  /\ secReq' = NoParts
  /\ secResp' = NoResp
  /\ detail' = NoDetail
  /\ directAgent' = Absent
  /\ secOpts' = NoOpts
  /\ UNCHANGED <<env, now, fs, dirExists, fsWriter, world>>

AfterParseError_RunsBody == "start"

\* return await generateImage(ImageGenerationSchema.parse(args)): a throw of
\* parse leaves the switch before the tool is called
AfterParseError == "failed"

\* the switch has no case for the name, or Schema.parse(args) throws: the
\* handler's catch answers before any tool body runs
CallRejected ==
  /\ pc = "idle"
  /\ \E name \in (ToolNames \cup GeminiToolNames) \cup {UnknownTool} :
       /\ req' = [NoReq EXCEPT !.name = name]
       /\ result' = ErrorResult(name, IF name = UnknownTool
                                        THEN <<UnknownToolText, name>>
                                        ELSE <<ZodErrorText>>)
  /\ trace' = <<"rejected">>
  /\ pc' = AfterParseError
  /\ UNCHANGED <<env, now, fs, dirExists, tempFiles, inflight, directOutcome,
                 directErr, reports, callIO, fsWriter, world>>

\* a throw inside a tool's try block: wrapped by the tool's catch, then
\* turned into text by the handler's catch
GeminiToolFails(reason, tr, event) ==
  /\ trace' = Append(tr, event)
  /\ directOutcome' = "error"
  /\ directErr' = reason
  /\ result' = ErrorResult(req.name, <<GeminiWrap(req.name), reason>>)
  /\ pc' = AfterGeminiToolError

\* a tool up to its await: key, input file, base64 command, axios.post
GeminiToolStart ==
  /\ pc = "start"
  /\ req.name \in GeminiToolNames
  /\ \E readable \in BOOLEAN, encodeOk \in BOOLEAN :
       IF ~GeminiKeyPresent(env, req)
         THEN /\ GeminiToolFails(KeyMissingError, trace, "toolError")
              /\ UNCHANGED <<inflight, directReq>>
         ELSE IF req.name = "gemini_direct_edit" /\ ~readable
           THEN /\ GeminiToolFails(ImageNotFoundError,
                                   Append(trace, "readInput"), "toolError")
                /\ UNCHANGED <<inflight, directReq>>
           ELSE IF req.name = "gemini_direct_edit" /\ ~encodeOk
             THEN /\ GeminiToolFails(EncodeError,
                                     trace \o <<"readInput", "encodeInput">>,
                                     "toolError")
                  /\ UNCHANGED <<inflight, directReq>>
             ELSE /\ trace' = (IF req.name = "gemini_direct_edit"
                                  THEN trace \o <<"readInput", "encodeInput">>
                                  ELSE trace) \o <<"directReq">>
                  /\ inflight' = inflight \cup {"direct"}
                  /\ directReq' = GeminiToolParts(req)
                  /\ pc' = AfterDirectPost
                  /\ UNCHANGED <<directOutcome, directErr, result>>
  /\ UNCHANGED <<env, now, fs, dirExists, req, tempFiles, reports, secReq,
                 secResp, detail, callCfg, fsWriter, world>>

\* the request of a tool throws (non-2xx or transport error)
GeminiToolError ==
  /\ pc = "awaitDirect"
  /\ req.name \in GeminiToolNames
  /\ "direct" \in inflight
  /\ inflight' = inflight \ {"direct"}
  /\ GeminiToolFails(GeminiHttpError, trace, "directError")
  /\ UNCHANGED <<env, now, fs, dirExists, req, tempFiles, reports, callIO,
                 fsWriter, world>>

\* the request of a tool resolves with a 2xx response
GeminiToolResponds ==
  /\ pc = "awaitDirect"
  /\ req.name \in GeminiToolNames
  /\ "direct" \in inflight
  /\ inflight' = inflight \ {"direct"}
  /\ \E body \in DirectBodies, writeOk \in BOOLEAN :
       LET seen == IF ExtractImageData(body) = NullData THEN "directEmpty"
                                                        ELSE "directImage"
           imageData == MatchData(Stringify(body))
       IN IF imageData = NullData
            THEN /\ GeminiToolFails(NoImageDataError, Append(trace, seen),
                                    "toolError")
                 /\ UNCHANGED <<reports, outFiles>>
            ELSE IF ~writeOk
              THEN /\ GeminiToolFails(WriteError, Append(trace, seen),
                                      "toolError")
                   /\ UNCHANGED <<reports, outFiles>>
              ELSE /\ outFiles' = outFiles \cup {req.output_path}
                   /\ trace' = trace \o <<seen, "report">>
                   /\ directOutcome' = "success"
                   /\ reports' = Append(reports, GeminiToolReport)
                   /\ result' = GeminiToolReport
                   /\ pc' = "done"
                   /\ UNCHANGED directErr
  /\ UNCHANGED <<env, now, fs, dirExists, req, tempFiles, callIO, fsWriter,
                 rmFails, peer, fixed, saved>>

NextHandler ==
  \/ Next
  \/ CallGeminiTool
  \/ CallRejected
  \/ GeminiToolStart
  \/ GeminiToolError
  \/ GeminiToolResponds

SpecHandler == Init /\ [][NextHandler]_vars

\* ------------------------------------------- credential and proxy lookup
ResolveInputs ==
  [fn : {"resolve"},
   api_key : {Absent, "", ArgKey},
   GEMINI_API_KEY : {Absent, "", EnvKey},
   proxy_url : {Absent, "", ArgProxy},
   HTTP_PROXY : {Absent, "", HttpProxy},
   HTTPS_PROXY : {Absent, "", HttpsProxy}]

InitResolve ==
  /\ Started
  /\ rmFails = FALSE
  /\ proxyEnv = NoProxyEnv
  /\ arg \in ResolveInputs
  /\ ret = NoRet
  /\ cmp = NoCmp
  /\ saved = NotTracked

\* the first statements of geminiDirectEdit and geminiNativeGenerate
Resolve ==
  /\ arg.fn = "resolve"
  /\ ret = NoRet
  /\ ret' = [fn |-> "resolve",
             key |-> ResolveGeminiKey(arg.api_key, arg.GEMINI_API_KEY),
             proxy |-> ResolveProxy(arg.proxy_url,
                                    [HTTP_PROXY |-> arg.HTTP_PROXY,
                                     HTTPS_PROXY |-> arg.HTTPS_PROXY])]
  /\ UNCHANGED <<env, now, fs, dirExists, req, pc, tempFiles, inflight, trace,
                 directOutcome, directErr, reports, result, callIO, fsWriter,
                 rmFails, peer, outFiles, proxyEnv, arg, cmp, saved>>

SpecResolve == InitResolve /\ [][Resolve]_vars

\* ------------------------------------------------- saveResponseImages alone
SavedLists == UNION {[1..n -> ResponseUrls] : n \in 0..MaxSaveImages}

\* message.images, save_directory, and which writes the file system lets
\* through
SaveInputs ==
  [fn : {"save"}, images : SavedLists, dir : {NoDir, "", "out"},
   writeOk : [1..MaxSaveImages -> BOOLEAN]]

InitSave ==
  /\ Started
  /\ rmFails = FALSE
  /\ proxyEnv = NoProxyEnv
  /\ arg \in SaveInputs
  /\ ret = NoRet
  /\ cmp = NoCmp
  /\ saved = NotTracked

\* const savedImages = saveResponseImages(responseImages, save_directory)
Save ==
  /\ arg.fn = "save"
  /\ ret = NoRet
  /\ ret' = [fn |-> "save",
             out |-> SaveResponseImages(arg.images, arg.dir, arg.writeOk)]
  /\ UNCHANGED <<env, now, fs, dirExists, req, pc, tempFiles, inflight, trace,
                 directOutcome, directErr, reports, result, callIO, fsWriter,
                 rmFails, peer, outFiles, proxyEnv, arg, cmp, saved>>

SpecSave == InitSave /\ [][Save]_vars

\* ------------------------------------------------ the files left on disk
InitDisk ==
  /\ Started
  /\ rmFails = FALSE
  /\ proxyEnv = NoProxyEnv
  /\ arg = NoArg
  /\ ret = NoRet
  /\ cmp = NoCmp
  /\ saved = NoFiles

SpecDisk == InitDisk /\ [][Next]_vars

\* ---------------------------------------------------------- compare_models
ModelIds == {"google/gemini-2.5-flash-image-preview:free", "openai/gpt-4o"}
ModelLists == UNION {[1..n -> ModelIds] : n \in 0..MaxModels}

\* what the callback of models.map returned for one model
CmpEntry(model, outcome) ==
  [model |-> model, success |-> outcome # "error"]

\* results.map(...): a successful entry is printed with
\* result.usage.total_tokens, which throws when usage is undefined
CmpFormatThrows(outcome) ==
  \E i \in 1..Len(outcome) : outcome[i] = "okNoUsage"

\* everything compare_models leaves alone
notCmp == <<env, now, fs, dirExists, req, pc, tempFiles, inflight, trace,
            directOutcome, directErr, reports, result, callIO, fsWriter,
            rmFails, peer, outFiles, proxyEnv, arg, ret, saved>>

\* models.map(async ...) runs every callback up to its await of axios.post,
\* then compareModels awaits Promise.all
CmpCall ==
  /\ cmp.pc = "idle"
  /\ pc = "idle"
  /\ \E models \in ModelLists :
       cmp' = [pc |-> "awaitAll", models |-> models,
               outcome |-> [i \in 1..Len(models) |-> "pending"],
               result |-> NoCmp.result]
  /\ UNCHANGED notCmp

\* one of the requests resolves with a 2xx response: without
\* choices[0].message the callback's catch returns an error entry
CmpResponds ==
  /\ cmp.pc = "awaitAll"
  /\ SecondaryAuthorized(env)
  /\ \E i \in 1..Len(cmp.models), body \in SecondaryBodies :
       /\ cmp.outcome[i] = "pending"
       /\ cmp' = [cmp EXCEPT !.outcome[i] =
                    IF ~body.hasMessage THEN "error"
                    ELSE IF body.hasUsage THEN "ok" ELSE "okNoUsage"]
  /\ UNCHANGED notCmp

\* one of the requests throws: the callback's catch returns an error entry
CmpFails ==
  /\ cmp.pc = "awaitAll"
  /\ \E i \in 1..Len(cmp.models) :
       /\ cmp.outcome[i] = "pending"
       /\ cmp' = [cmp EXCEPT !.outcome[i] = "error"]
  /\ UNCHANGED notCmp

\* Promise.all resolves, the entries are formatted and joined; a throw
\* while formatting reaches the handler's catch
CmpAggregate ==
  /\ cmp.pc = "awaitAll"
  /\ \A i \in 1..Len(cmp.models) : cmp.outcome[i] # "pending"
  /\ cmp' = IF CmpFormatThrows(cmp.outcome)
              THEN [cmp EXCEPT !.pc = "failed",
                               !.result = [kind |-> "error", entries |-> <<>>]]
              ELSE [cmp EXCEPT !.pc = "done",
                               !.result =
                                 [kind |-> "comparison",
                                  entries |->
                                    [i \in 1..Len(cmp.models) |->
                                       CmpEntry(cmp.models[i],
                                                cmp.outcome[i])]]]
  /\ UNCHANGED notCmp

\* the handler's promise settles
CmpReturns ==
  /\ cmp.pc \in {"done", "failed"}
  /\ cmp' = NoCmp
  /\ UNCHANGED notCmp

NextCompare ==
  \/ CmpCall
  \/ CmpResponds
  \/ CmpFails
  \/ CmpAggregate
  \/ CmpReturns

SpecCompare == Init /\ [][NextCompare]_vars

\* =================================================================== claims
Terminal == pc \in {"done", "failed"}
Has(e) == Count(trace, e) > 0
Positions(e) == {i \in 1..Len(trace) : trace[i] = e}
DirectResolutions == {"directError", "directEmpty", "directImage"}
DirectAttempted == Has("tryDirect")

\* C1: every edit_image call that materializes a temp file has deleted it
\* exactly once by the time the call returns, on every outcome path.
C1_TempDeletedExactlyOnce ==
  (Terminal /\ Has("createTemp")) =>
     /\ Count(trace, "release") = 1
     /\ Range(tempFiles) \cap fs = {}

\* C2: when the direct attempt of edit_image ends in Error or EmptyResponse
\* and a temp file exists, the file is released before the request to the
\* secondary provider is issued.
C2_ReleasedBeforeSecondary ==
  \A j \in Positions("secondaryReq") :
    Has("createTemp") =>
      /\ \E i \in Positions("release") : i < j
      /\ Range(tempFiles) \cap fs = {}

\* C3: within one call the direct request is issued and resolved before the
\* secondary request is issued; the two are never in flight together.
C3_DirectResolvedBeforeSecondary ==
  /\ ~({"direct", "secondary"} \subseteq inflight)
  /\ ("direct" \in inflight => ~Has("secondaryReq"))
  /\ \A j \in Positions("secondaryReq") :
       \A i \in Positions("directReq") :
         /\ i < j
         /\ \E k \in (i + 1)..(j - 1) : trace[k] \in DirectResolutions

C3_Witness ==
  /\ pc = "awaitSecondary"
  /\ Has("directReq")
  /\ "secondary" \in inflight

\* C4: an edit_image call with an empty images list never enters the direct
\* path: no request to the direct provider, no download, no temp file; it
\* goes straight to the secondary provider, with or without GEMINI_API_KEY.
C4_NoImagesSkipsDirect ==
  (req.name = "edit_image" /\ Len(req.images) = 0) =>
     /\ ~Has("tryDirect")
     /\ ~Has("directReq")
     /\ ~Has("downloadReq")
     /\ ~Has("createTemp")
     /\ tempFiles = <<>>
     /\ directOutcome = "none"
     /\ (pc # "start" => trace[1] = "skipDirect")
     /\ (Has("secondaryReq") => trace[2] = "secondaryReq")

C4_Witness ==
  /\ req.name = "edit_image"
  /\ Len(req.images) = 0
  /\ env.GEMINI_API_KEY
  /\ Has("secondaryReq")

\* C5: a call made with no GEMINI_API_KEY sends nothing to the direct
\* endpoint, surfaces no error for the skip (it fails only if the secondary
\* request fails), and the secondary attempt is its first and only attempt.
C5_NoKeySkipsDirect ==
  (~env.GEMINI_API_KEY /\ pc # "idle") =>
     /\ ~Has("directReq")
     /\ ~Has("downloadReq")
     /\ ~Has("tryDirect")
     /\ directErr = "none"
     /\ (pc # "start" => trace[1] = "skipDirect")
     /\ (Has("secondaryReq") => trace[2] = "secondaryReq")
     /\ (Terminal => Count(trace, "secondaryReq") = 1)
     /\ (pc = "failed" => Has("secondaryError"))
     /\ (pc = "done" => result = SecondaryReport)

C5_Witness ==
  /\ ~env.GEMINI_API_KEY
  /\ pc = "done"
  /\ result = SecondaryReport

\* C6: within one call each provider receives at most one request, so a
\* call makes at most two provider requests and never retries a provider.
C6_AtMostOneAttemptEach ==
  /\ Count(trace, "directReq") <= 1
  /\ Count(trace, "secondaryReq") <= 1
  /\ (Has("secondaryError") => pc = "failed")

C6_Witness ==
  /\ pc = "failed"
  /\ Count(trace, "directReq") = 1
  /\ Count(trace, "secondaryReq") = 1

\* C7: whenever the direct provider answers 2xx with inline image data, the
\* call ends with a report attributed to the direct provider and sends no
\* request to the secondary provider (also when save_directory is missing).
C7_DirectImageIsTerminal ==
  Has("directImage") =>
     /\ ~Has("secondaryReq")
     /\ pc = "done"
     /\ result = DirectReport

\* C8: every call that succeeds produces exactly one report, attributed to
\* exactly one provider: Gemini Direct or OpenRouter (fallback).
C8_ExactlyOneReport ==
  /\ Len(reports) <= 1
  /\ Count(trace, "report") = Len(reports)
  /\ (pc = "done" =>
        /\ Len(reports) = 1
        /\ result = reports[1]
        /\ result.api \in {"Gemini Direct", "OpenRouter (fallback)"}
        /\ (result.api = "Gemini Direct") = ~Has("secondaryReq"))

C8_Witness ==
  /\ pc = "done"
  /\ DirectAttempted
  /\ result.api = "OpenRouter (fallback)"

\* the reason the direct attempt failed, as the direct catch logs it
DirectReason == IF directOutcome = "empty" THEN "no image data" ELSE directErr
InText(t) == \E i \in 1..Len(result.text) : result.text[i] = t

\* C9: when the secondary attempt fails, the error message names the direct
\* provider's failure reason if the direct provider was attempted, plus the
\* secondary reason; it reports no direct failure if it was not attempted.
C9_MessageNamesBothFailures ==
  pc = "failed" =>
     /\ InText(OpenRouterHttpError) \/ InText(OpenRouterTypeError)
     /\ (DirectAttempted => InText(DirectReason))
     /\ (~DirectAttempted => ~InText(BothFailedText))

NoProviderConfigured == ~env.GEMINI_API_KEY /\ ~env.OPENROUTER_API_KEY

\* C10 as stated: a call fails terminally iff (a) no provider is configured
\* or (b) the direct provider was attempted and both it and the secondary
\* provider ended in Error/EmptyResponse; otherwise it returns a report.
C10_Original ==
  Terminal =>
     /\ (pc = "failed") =
          (\/ NoProviderConfigured
           \/ /\ DirectAttempted
              /\ directOutcome \in {"error", "empty"}
              /\ Has("secondaryError") \/ Has("secondaryEmpty"))
     /\ (pc = "done") = (result.kind = "report")

\* C10 amended: a call fails terminally iff its secondary attempt ended in
\* Error, whether the direct provider was skipped or attempted without a
\* persisted result; in every other case it returns a success report.
C10_FailsIffSecondaryError ==
  /\ (pc = "failed") = Has("secondaryError")
  /\ (pc = "failed") = (result.kind = "error")
  /\ (pc = "done") = (result.kind = "report")
  /\ (pc = "done") = Has("report")

C10_Witness ==
  /\ pc = "failed"
  /\ ~DirectAttempted
  /\ env.OPENROUTER_API_KEY

\* C12: with neither GEMINI_API_KEY nor OPENROUTER_API_KEY configured, a
\* call fails with a configuration error and sends no request to any
\* provider.
C12_NoCredentialsNoRequest ==
  NoProviderConfigured =>
     /\ ~Has("directReq")
     /\ ~Has("downloadReq")
     /\ ~Has("secondaryReq")
     /\ (Terminal => pc = "failed" /\ ~InText(BothFailedText))

\* C13: with only GEMINI_API_KEY configured there is no fallback: no
\* request is sent to the OpenRouter endpoint on any path.
C13_GeminiOnlyNoFallback ==
  (env.GEMINI_API_KEY /\ ~env.OPENROUTER_API_KEY) => ~Has("secondaryReq")

\* C16: a failure to materialize the first reference image is an Error of
\* the direct attempt only: no request goes to the direct provider, the
\* call does not abort, and the secondary provider is still attempted.
C16_MaterializeFailureFallsBack ==
  directErr = DownloadError =>
     /\ directOutcome = "error"
     /\ ~Has("directReq")
     /\ ~Has("createTemp")
     /\ tempFiles = <<>>
     /\ pc \in {"secondary", "awaitSecondary", "done", "failed"}
     /\ (Terminal => Has("secondaryReq"))
     /\ (pc = "failed" => Has("secondaryError"))

C16_Witness ==
  /\ directErr = DownloadError
  /\ Has("downloadReq")
  /\ pc = "done"
  /\ result.api = "OpenRouter (fallback)"

\* C11: when the OpenRouter endpoint answers 2xx with a message that carries
\* no image, the call ends in success attributed to OpenRouter, reports zero
\* generated images and the response text as received, and sends no further
\* request
C11_EmptySecondaryIsSuccess ==
  (secResp.status = "2xx" /\ secResp.hasMessage /\ ResponseImages(secResp) = 0)
    => /\ pc = "done"
       /\ result = SecondaryReport
       /\ detail.images = 0
       /\ detail.response = secResp.content
       /\ Count(trace, "secondaryReq") = 1

\* C15: an edit_image call with n >= 1 images writes one temp file, sends the
\* Gemini endpoint the instruction and the encoded bytes of images[0] only,
\* and sends the OpenRouter endpoint the instruction block followed by the
\* n image references in the caller's order, each as given
C15_RequestImages ==
  (req.name = "edit_image" /\ Len(req.images) >= 1) =>
    /\ Count(trace, "createTemp") <= 1
    /\ Len(tempFiles) <= 1
    /\ directReq # NoParts =>
         /\ Len(directReq) = 2
         /\ directReq[1] = TextPart(req.prompt)
         /\ directReq[2] = [type |-> "inline_data", value |-> req.images[1],
                            enc |-> "base64"]
    /\ secReq # NoParts =>
         /\ Len(secReq) = Len(req.images) + 1
         /\ secReq[1] = TextPart(req.prompt)
         /\ \A i \in 1..Len(req.images) :
              secReq[i + 1] = [type |-> "image_url", value |-> req.images[i],
                               enc |-> "plain"]

C15_Witness ==
  /\ req.name = "edit_image"
  /\ Len(req.images) = 2
  /\ req.images[1] # req.images[2]
  /\ directReq # NoParts
  /\ secReq # NoParts

\* C17: when rm fails on a temp file the failure goes nowhere: after a
\* direct failure the OpenRouter request is still sent and the call fails
\* only if that request fails, after a direct success the direct report is
\* returned, and the result carries nothing but a report or the text of the
\* OpenRouter failure
C17_CleanupFailureSwallowed ==
  Has("releaseFailed") =>
    /\ pc \in {"secondary", "awaitSecondary", "done", "failed"}
    /\ Has("directError") =>
         /\ Terminal => Has("secondaryReq")
         /\ pc = "failed" => Has("secondaryError")
    /\ ~Has("directError") => (pc = "done" /\ result = DirectReport)
    /\ result \in {NoResult, DirectReport, SecondaryReport}
                    \cup {ErrorResult(req.name, BothFailedMessage(r)) :
                            r \in {OpenRouterHttpError, OpenRouterTypeError}}

C17_Witness ==
  /\ Has("releaseFailed")
  /\ Has("directError")
  /\ pc = "done"
  /\ result = SecondaryReport

\* C14: while two edit_image calls are handled at the same time, no temp
\* file name is held by both, and a file a call still needs is on disk with
\* the bytes that call wrote: nobody else replaced or removed it
C14_TempFilesIsolated ==
  /\ Range(tempFiles) \cap Range(peer.files) = {}
  /\ pc \in {"encode", "awaitDirect"} =>
       \A n \in Range(tempFiles) : n \in fs /\ fsWriter[n] = "call"
  /\ \A n \in Range(peer.files) : n \in fs /\ fsWriter[n] = "peer"

\* C18: a call that ends in failure - rejected by the handler for its name
\* or its arguments, or failed inside the tool - has returned one text of the
\* form Error executing <name>: <message> with a non-empty message and no
\* report beside it, and no call ends without a result
C18_FailureIsOneErrorText ==
  /\ pc = "failed" =>
       /\ result.kind = "error"
       /\ Len(result.text) >= 3
       /\ result.text[1] = "Error executing"
       /\ result.text[2] = req.name
       /\ \A i \in 3..Len(result.text) : result.text[i] # ""
       /\ reports = <<>>
  /\ Terminal => result # NoResult

C18_Witness ==
  /\ pc = "failed"
  /\ Has("rejected")
  /\ req.name = UnknownTool
  /\ result = ErrorResult(UnknownTool, <<UnknownToolText, UnknownTool>>)

\* C19 as stated: the two Gemini tools never send an OpenRouter request,
\* send at most one Gemini request, and when that request fails the call
\* fails with exactly the provider's error as its message
C19_Original ==
  req.name \in GeminiToolNames =>
    /\ ~Has("secondaryReq")
    /\ Count(trace, "directReq") <= 1
    /\ Has("directError") =>
         /\ pc = "failed"
         /\ result = ErrorResult(req.name, <<GeminiHttpError>>)

\* C19: the two Gemini tools never send an OpenRouter request, send at most
\* one Gemini request, and when that request fails the call fails with the
\* provider's error text kept as it is behind the prefix the tool puts in
\* front of it
C19_GeminiToolsBypassFallback ==
  req.name \in GeminiToolNames =>
    /\ ~Has("secondaryReq")
    /\ Count(trace, "directReq") <= 1
    /\ Has("directError") =>
         /\ pc = "failed"
         /\ result = ErrorResult(req.name,
                                 <<GeminiWrap(req.name), GeminiHttpError>>)

C19_Witness ==
  /\ req.name = "gemini_direct_edit"
  /\ Has("directError")
  /\ pc = "failed"
  /\ directReq # NoParts

\* C20: when a Gemini tool holding a key gets a 2xx response with an
\* inlineData.data part, it does not answer "No image data found": it writes
\* output_path and returns its success text, or fails on the write alone;
\* "No image data found" is answered only to a response without image data
C20_InlineDataIsSaved ==
  req.name \in GeminiToolNames =>
    /\ Has("directImage") =>
         /\ directErr # NoImageDataError
         /\ pc = "done" => (result = GeminiToolReport
                             /\ req.output_path \in outFiles)
         /\ pc = "failed" => directErr = WriteError
    /\ directErr = NoImageDataError => Has("directEmpty")

\* C21: the resolved key is the api_key argument when it is given, else
\* GEMINI_API_KEY, else nothing; the resolved proxy is the proxy_url argument
\* when it is given, else HTTP_PROXY, else HTTPS_PROXY, else nothing (a value
\* counts as given when it is a non-empty string)
C21_ResolutionOrder ==
  ret.fn = "resolve" =>
    /\ Truthy(arg.api_key) => ret.key = arg.api_key
    /\ (~Truthy(arg.api_key) /\ Truthy(arg.GEMINI_API_KEY))
         => ret.key = arg.GEMINI_API_KEY
    /\ (~Truthy(arg.api_key) /\ ~Truthy(arg.GEMINI_API_KEY))
         => ~Truthy(ret.key)
    /\ Truthy(arg.proxy_url) => ret.proxy = arg.proxy_url
    /\ (~Truthy(arg.proxy_url) /\ Truthy(arg.HTTP_PROXY))
         => ret.proxy = arg.HTTP_PROXY
    /\ (~Truthy(arg.proxy_url) /\ ~Truthy(arg.HTTP_PROXY)
          /\ Truthy(arg.HTTPS_PROXY))
         => ret.proxy = arg.HTTPS_PROXY
    /\ (~Truthy(arg.proxy_url) /\ ~Truthy(arg.HTTP_PROXY)
          /\ ~Truthy(arg.HTTPS_PROXY))
         => ~Truthy(ret.proxy)

C21_Witness ==
  /\ ret.fn = "resolve"
  /\ arg.api_key = ArgKey
  /\ arg.GEMINI_API_KEY = EnvKey
  /\ ret.key = ArgKey
  /\ arg.proxy_url = Absent
  /\ arg.HTTP_PROXY = HttpProxy
  /\ arg.HTTPS_PROXY = HttpsProxy
  /\ ret.proxy = HttpProxy

\* C22: once compare_models is under way a request has been issued for every
\* listed model, and whatever the order of completion and whichever models
\* fail, the call ends with one comparison holding one entry per model in
\* input order, an error entry for exactly the models that failed; the call
\* itself never fails
C22_OneEntryPerModel ==
  /\ cmp.pc # "idle" => Len(cmp.outcome) = Len(cmp.models)
  /\ cmp.pc # "failed"
  /\ cmp.pc = "done" =>
       /\ cmp.result.kind = "comparison"
       /\ Len(cmp.result.entries) = Len(cmp.models)
       /\ \A i \in 1..Len(cmp.models) :
            /\ cmp.result.entries[i].model = cmp.models[i]
            /\ cmp.result.entries[i].success = (cmp.outcome[i] # "error")

\* position of a pc value in Start -> TryDirect -> TrySecondary -> terminal
Rank(p) ==
  CASE p = "start" -> 1
    [] p = "awaitDownload" -> 2
    [] p = "encode" -> 3
    [] p = "awaitDirect" -> 4
    [] p = "secondary" -> 5
    [] p = "awaitSecondary" -> 6
    [] p \in {"done", "failed"} -> 7
    [] OTHER -> 0

\* a step moves the call forward, hands its result back, or takes a new call
Forward ==
  \/ pc' = pc
  \/ Rank(pc') > Rank(pc)
  \/ pc \in {"done", "failed"} /\ pc' = "idle"

\* C23: every generate_image or edit_image call that was started reaches a
\* terminal state, success report or failure, and on the way it only moves
\* forward: it never goes back to an earlier stage and never leaves one
\* terminal state for the other
C23_CallTerminates ==
  /\ (pc = "start") ~> (pc \in {"done", "failed"})
  /\ [][Forward]_vars

C23_Witness ==
  /\ pc = "failed"
  /\ Has("tryDirect")
  /\ Has("directError")
  /\ Has("secondaryError")

\* C24: the request to the Gemini endpoint carries a proxy agent exactly when
\* the proxy URL resolved from the environment is non-empty, and then that
\* URL; the OpenRouter request never carries an agent; a report has a Proxy
\* line only when it is the direct report of a call whose request went through
\* that proxy, and such a direct report always has it
C24_ProxyOnlyForDirect ==
  /\ Has("directReq") =>
       /\ (directAgent # Absent) <=>
            (\/ proxyEnv.HTTP_PROXY \notin {Absent, ""}
             \/ proxyEnv.HTTPS_PROXY \notin {Absent, ""})
       /\ directAgent \in {Absent, HttpProxy, HttpsProxy}
       /\ proxyEnv.HTTP_PROXY \notin {Absent, ""} =>
            directAgent = proxyEnv.HTTP_PROXY
  /\ ~Has("directReq") => directAgent = Absent
  /\ secOpts.agent = Absent
  /\ detail.proxy # Absent =>
       /\ pc = "done"
       /\ result = DirectReport
       /\ ~Has("secondaryReq")
       /\ detail.proxy = directAgent
  /\ (pc = "done" /\ result = DirectReport) => detail.proxy = directAgent

C24_Witness ==
  /\ pc = "done"
  /\ result = DirectReport
  /\ detail.proxy = HttpsProxy
  /\ proxyEnv.HTTP_PROXY = Absent

C24_WitnessSecondary ==
  /\ pc = "done"
  /\ result = SecondaryReport
  /\ directAgent = HttpProxy
  /\ Has("secondaryReq")

\* C26: whatever the direct path did (not tried, failed, or returned no
\* image), the OpenRouter request carries the caller's text, the whole image
\* list as given, and the model, max_tokens and temperature of the call
C26_SecondaryRequestFromCall ==
  Has("secondaryReq") =>
    /\ secReq = <<TextPart(req.prompt)>> \o
                  [i \in 1..Len(req.images) |->
                     [type |-> "image_url", value |-> req.images[i],
                      enc |-> "plain"]]
    /\ secOpts.model = req.model
    /\ secOpts.max_tokens = req.max_tokens
    /\ secOpts.temperature = req.temperature

C26_Witness ==
  /\ Has("secondaryReq")
  /\ directOutcome = "empty"
  /\ req.model # DefaultModel
  /\ req.max_tokens = "256"
  /\ secOpts.model = req.model

\* C25: reading a 2xx response never throws on an absent optional field: a
\* Gemini response classified as carrying no image data leaves no error
\* behind, and an OpenRouter response with a message but without images or
\* without usage ends the call with the OpenRouter report, listing the
\* images the response carried (none when images is absent)
C25_MissingFieldsNeverRaise ==
  /\ Has("directEmpty") => (directOutcome = "empty" /\ directErr = "none")
  /\ (/\ secResp.status = "2xx"
      /\ secResp.hasMessage
      /\ (~secResp.hasImages \/ ~secResp.hasUsage))
       => /\ pc = "done"
          /\ result = SecondaryReport
          /\ ~Has("secondaryError")
          /\ detail.images = ResponseImages(secResp)

\* C27: saveResponseImages returns one entry per image of the response, in
\* the order of the response, each with the URL of its image (empty when the
\* image has none); an entry has a savedPath only if a save directory was
\* given and the URL is a data:image/ URI, and then the path is
\* generated_image_<position> in that directory; an image that could not be
\* saved leaves its own entry without savedPath, and every other image is
\* saved as if nothing had failed
C27_OneEntryPerImage ==
  ret.fn = "save" =>
    /\ Len(ret.out) = Len(arg.images)
    /\ \A i \in 1..Len(arg.images) :
         /\ ret.out[i].url = (IF arg.images[i] = Absent THEN ""
                                                         ELSE arg.images[i])
         /\ ret.out[i].savedPath # Unsaved =>
              /\ arg.dir \notin {NoDir, ""}
              /\ arg.images[i] \in {DataUriOk, DataUriNoPayload}
              /\ ret.out[i].savedPath.dir = arg.dir
              /\ ret.out[i].savedPath.name = "generated_image"
              /\ ret.out[i].savedPath.key = i
         /\ (/\ arg.dir = "out"
             /\ arg.images[i] = DataUriOk
             /\ arg.writeOk[i]) => ret.out[i].savedPath # Unsaved

C27_Witness ==
  /\ ret.fn = "save"
  /\ Len(arg.images) = 2
  /\ arg.dir = "out"
  /\ arg.images[1] = DataUriOk
  /\ arg.images[2] = DataUriOk
  /\ ~arg.writeOk[1]
  /\ ret.out[1].savedPath = Unsaved
  /\ ret.out[2].savedPath = SavedPath("out", 2, "png")

\* C30: among generate_image and edit_image calls that save into the same
\* directory, no generated_image file that one call has written is written
\* again by another call
C30_NoOverwrite ==
  saved.clobbered = {}

\* C28: when the arguments of a generate_image or edit_image call fail the
\* schema, the tool is never entered: no request is sent, no image is
\* downloaded and no temp file is made, and the call ends with the one error
\* text of the handler
C28_RejectedBeforeBody ==
  (Has("rejected") /\ req.name \in ToolNames) =>
    /\ pc = "failed"
    /\ trace = <<"rejected">>
    /\ inflight = {}
    /\ tempFiles = <<>>
    /\ directReq = NoParts
    /\ secReq = NoParts
    /\ reports = <<>>
    /\ result = ErrorResult(req.name, <<ZodErrorText>>)

C28_Witness ==
  /\ Has("rejected")
  /\ req.name = "edit_image"
  /\ pc = "failed"
  /\ result = ErrorResult("edit_image", <<ZodErrorText>>)

\* C29: a gemini_direct_edit or gemini_native_generate call with no api_key
\* argument and no GEMINI_API_KEY in the environment fails with the missing
\* key message before anything else happens: the input image is neither read
\* nor encoded, no request is sent and no report or output file is produced
C29_MissingKeyFailsFirst ==
  (/\ req.name \in GeminiToolNames
   /\ ~req.api_key
   /\ ~env.GEMINI_API_KEY
   /\ ~Has("rejected")
   /\ pc # "start") =>
    /\ pc = "failed"
    /\ trace = <<"toolError">>
    /\ directErr = KeyMissingError
    /\ result = ErrorResult(req.name, <<GeminiWrap(req.name), KeyMissingError>>)
    /\ ~Has("readInput")
    /\ ~Has("encodeInput")
    /\ ~Has("directReq")
    /\ inflight = {}
    /\ directReq = NoParts
    /\ reports = <<>>

C29_Witness ==
  /\ req.name = "gemini_direct_edit"
  /\ ~req.api_key
  /\ ~env.GEMINI_API_KEY
  /\ pc = "failed"
  /\ directErr = KeyMissingError

====
